---- MODULE Spec2Model ----
(***************************************************************************)
(* Quickhull (src/quickhull.py) as a state machine.                        *)
(*                                                                         *)
(* A point is a pair <<x, y>> of integers, a point list is a sequence of   *)
(* points.  The pure helpers of the source are operators; the recursion of *)
(* find_hull is unfolded into an explicit stack of pending calls that is   *)
(* processed in the order Python evaluates them (the call for the side     *)
(* line_start -> farthest_point first, then farthest_point -> line_end),   *)
(* so the hull is built in the order of                                    *)
(*     convex_hull + right_hull + left_hull.                               *)
(* One step is one call of find_hull that reaches the recursive case; a    *)
(* call on an empty subset returns at once and is never pending.           *)
(* Arithmetic is exact: a distance angle / dist(line_start, line_end) is   *)
(* kept as the pair (angle, squared length) and compared as a real number. *)
(***************************************************************************)
EXTENDS Integers, Sequences, FiniteSets

\* Bounds of the model: coordinates are drawn from (0..MaxX) \X (0..MaxY),
\* the input list has at most MaxLen points.
MaxX == 2
MaxY == 2
MaxLen == 4

VARIABLES
    coordinates,          \* argument of the current quick_hull call
    pc,                   \* "input", "hull" (inside quick_hull), "returned", "error"
    leftmost, rightmost,  \* locals of quick_hull (line 112)
    coords_above_line,    \* local of quick_hull (line 116)
    coords_below_line,    \* local of quick_hull (line 116)
    stack,                \* pending find_hull calls, next call first
    above_convex_hull,    \* local of quick_hull (line 119)
    below_convex_hull,    \* local of quick_hull (line 120)
    farthest_point,       \* farthest_point of the last find_hull step
    convex_hull,          \* value returned by quick_hull (line 122)
    error,                \* exception that ended the call, or "none"
    run,                  \* 1: call on the input, 2: call on the first hull
    first_hull            \* value returned by the first call

vars == <<coordinates, pc, leftmost, rightmost, coords_above_line,
          coords_below_line, stack, above_convex_hull, below_convex_hull,
          farthest_point, convex_hull, error, run, first_hull>>

Point == (0..MaxX) \X (0..MaxY)

NoPoint == <<-1, -1>>

Range(s) == {s[i] : i \in 1..Len(s)}

----------------------------------------------------------------------------
(* Pure helpers of the source.                                             *)

cross_product(point1, point2, point3) ==
    (point2[1] - point1[1]) * (point3[2] - point1[2])
      - (point3[1] - point1[1]) * (point2[2] - point1[2])

\* Variant of the partition: the comparison of line 30 is inclusive.
partition_with_inclusive_test(coords, line_start, line_end) ==
    LET IsAbove(point) == cross_product(line_start, line_end, point) >= 0
        IsBelow(point) == ~(cross_product(line_start, line_end, point) >= 0)
    IN  <<SelectSeq(coords, IsAbove), SelectSeq(coords, IsBelow)>>

\* Variant of the partition: the test of line 28 skips the point.
partition_skipping_line_points(coords, line_start, line_end) ==
    LET Kept(point) == ~(\/ cross_product(line_start, line_end, point) = 0
                         \/ point = line_start
                         \/ point = line_end)
        IsAbove(point) == Kept(point) /\ cross_product(line_start, line_end, point) > 0
        IsBelow(point) == Kept(point) /\ ~(cross_product(line_start, line_end, point) > 0)
    IN  <<SelectSeq(coords, IsAbove), SelectSeq(coords, IsBelow)>>

\* The pair (above_line, below_line).  The test of line 28 has an empty
\* body, so only angle > 0 decides the group.
find_coordinates_above_and_below_line(coords, line_start, line_end) ==
    LET IsAbove(point) == cross_product(line_start, line_end, point) > 0
        IsBelow(point) == ~(cross_product(line_start, line_end, point) > 0)
    IN  <<SelectSeq(coords, IsAbove), SelectSeq(coords, IsBelow)>>

\* min(coordinates, key=...): the scan keeps the first item and replaces it
\* only by an item whose key is strictly smaller.
RECURSIVE MinByX(_, _, _)
MinByX(coords, i, best) ==
    IF i > Len(coords) THEN best
    ELSE MinByX(coords, i + 1, IF coords[i][1] < best[1] THEN coords[i] ELSE best)

\* max(coordinates, key=...): replaces only by a strictly larger key.
RECURSIVE MaxByX(_, _, _)
MaxByX(coords, i, best) ==
    IF i > Len(coords) THEN best
    ELSE MaxByX(coords, i + 1, IF coords[i][1] > best[1] THEN coords[i] ELSE best)

\* Variants of the scans that replace on an equal key, so that the last
\* item attaining the extremum wins.
RECURSIVE MinByXLast(_, _, _)
MinByXLast(coords, i, best) ==
    IF i > Len(coords) THEN best
    ELSE MinByXLast(coords, i + 1, IF coords[i][1] <= best[1] THEN coords[i] ELSE best)

RECURSIVE MaxByXLast(_, _, _)
MaxByXLast(coords, i, best) ==
    IF i > Len(coords) THEN best
    ELSE MaxByXLast(coords, i + 1, IF coords[i][1] >= best[1] THEN coords[i] ELSE best)

leftmost_last_and_rightmost(coords) ==
    <<MinByXLast(coords, 2, coords[1]), MaxByX(coords, 2, coords[1])>>

leftmost_and_rightmost_last(coords) ==
    <<MinByX(coords, 2, coords[1]), MaxByXLast(coords, 2, coords[1])>>

find_leftmost_and_rightmost(coords) ==
    <<MinByX(coords, 2, coords[1]), MaxByX(coords, 2, coords[1])>>

\* Square of math.dist(line_start, line_end).
line_distance_squared(line_start, line_end) ==
    (line_end[1] - line_start[1]) * (line_end[1] - line_start[1])
      + (line_end[2] - line_start[2]) * (line_end[2] - line_start[2])

\* angle / line_distance as the exact quotient num / sqrt(den2); the
\* division raises ZeroDivisionError when den2 = 0.
distance_from_line_to_point(line_start, line_end, point) ==
    [num  |-> cross_product(line_start, line_end, point),
     den2 |-> line_distance_squared(line_start, line_end)]

Sign(n) == IF n > 0 THEN 1 ELSE IF n < 0 THEN -1 ELSE 0

\* u < v for two quotients with positive denominators.
DistanceLess(u, v) ==
    Sign(u.num) * u.num * u.num * v.den2 < Sign(v.num) * v.num * v.num * u.den2

DistanceEqual(u, v) == ~DistanceLess(u, v) /\ ~DistanceLess(v, u)

\* max(distances): an item of the list that no item exceeds.
MaxDistance(distances) ==
    CHOOSE m \in Range(distances) :
        \A i \in 1..Len(distances) : ~DistanceLess(m, distances[i])

\* distances.index(value): the first index whose item equals value.
IndexOf(distances, value) ==
    CHOOSE i \in 1..Len(distances) :
        /\ DistanceEqual(distances[i], value)
        /\ \A j \in 1..(i - 1) : ~DistanceEqual(distances[j], value)

\* Variant of the selection: min(distances) in place of max(distances).
MinDistance(distances) ==
    CHOOSE m \in Range(distances) :
        \A i \in 1..Len(distances) : ~DistanceLess(distances[i], m)

nearest_point_from_line(coords, line_start, line_end) ==
    LET distances == [i \in 1..Len(coords) |->
                         distance_from_line_to_point(line_start, line_end, coords[i])]
        index == IndexOf(distances, MinDistance(distances))
    IN  coords[index]

\* Variant of the selection: the coordinates of the result are swapped.
farthest_point_transposed(coords, line_start, line_end) ==
    LET distances == [i \in 1..Len(coords) |->
                         distance_from_line_to_point(line_start, line_end, coords[i])]
        index == IndexOf(distances, MaxDistance(distances))
    IN  <<coords[index][2], coords[index][1]>>

farthest_point_from_line(coords, line_start, line_end) ==
    LET distances == [i \in 1..Len(coords) |->
                         distance_from_line_to_point(line_start, line_end, coords[i])]
        index == IndexOf(distances, MaxDistance(distances))
    IN  coords[index]

\* A pending call find_hull(subset, line_start, line_end).  branch names
\* the local of quick_hull that receives its points: "above" for the call
\* of line 119 and the calls it makes, "below" for those of line 120.
Frame(subset, line_start, line_end, branch) ==
    [subset_of_coordinates |-> subset, line_start |-> line_start,
     line_end |-> line_end, branch |-> branch]

\* The calls that reach the recursive case.  A call on an empty subset
\* returns [] at line 85 and leaves nothing to do.
Pending(calls) ==
    LET HasPoints(call) == call.subset_of_coordinates # <<>>
    IN  SelectSeq(calls, HasPoints)

----------------------------------------------------------------------------
(* The state machine.                                                      *)

Init ==
    /\ coordinates = <<>>
    /\ pc = "input"
    /\ leftmost = NoPoint
    /\ rightmost = NoPoint
    /\ coords_above_line = <<>>
    /\ coords_below_line = <<>>
    /\ stack = <<>>
    /\ above_convex_hull = <<>>
    /\ below_convex_hull = <<>>
    /\ farthest_point = NoPoint
    /\ convex_hull = <<>>
    /\ error = "none"
    /\ run = 1
    /\ first_hull = <<>>

\* Lines 131-133: the caller builds the list of points, one point at a time.
generate_coordinates ==
    /\ pc = "input"
    /\ run = 1
    /\ Len(coordinates) < MaxLen
    /\ \E point \in Point : coordinates' = Append(coordinates, point)
    /\ UNCHANGED <<pc, leftmost, rightmost, coords_above_line,
                   coords_below_line, stack, above_convex_hull,
                   below_convex_hull, farthest_point, convex_hull, error, run,
                   first_hull>>

\* Lines 163 and 112 on an empty list: min() raises ValueError.
EmptyInput ==
    /\ pc = "input"
    /\ coordinates = <<>>
    /\ pc' = "error"
    /\ error' = "ValueError"
    /\ UNCHANGED <<coordinates, leftmost, rightmost, coords_above_line,
                   coords_below_line, stack, above_convex_hull,
                   below_convex_hull, farthest_point, convex_hull, run,
                   first_hull>>

\* Lines 163, 112 and 116: quick_hull is called on the list, finds the
\* extremes and the two groups; the calls of lines 119 and 120 become
\* pending, in this order.
Split ==
    /\ pc = "input"
    /\ coordinates # <<>>
    /\ \E extremes \in {find_leftmost_and_rightmost(coordinates)} :
       \E groups \in {find_coordinates_above_and_below_line(
                          coordinates, extremes[1], extremes[2])} :
           /\ leftmost' = extremes[1]
           /\ rightmost' = extremes[2]
           /\ coords_above_line' = groups[1]
           /\ coords_below_line' = groups[2]
           /\ stack' = Pending(<<Frame(groups[1], extremes[1], extremes[2], "above"),
                                 Frame(groups[2], extremes[2], extremes[1], "below")>>)
    /\ pc' = "hull"
    /\ UNCHANGED <<coordinates, above_convex_hull, below_convex_hull,
                   farthest_point, convex_hull, error, run, first_hull>>

\* Lines 89, 69, 55-57: the first distance computed over a baseline of
\* length zero raises ZeroDivisionError, which nothing catches.
FindHullDivideByZero ==
    /\ pc = "hull"
    /\ stack # <<>>
    /\ line_distance_squared(stack[1].line_start, stack[1].line_end) = 0
    /\ pc' = "error"
    /\ error' = "ZeroDivisionError"
    /\ UNCHANGED <<coordinates, leftmost, rightmost, coords_above_line,
                   coords_below_line, stack, above_convex_hull,
                   below_convex_hull, farthest_point, convex_hull, run,
                   first_hull>>

\* Variant of the recursive case: line 102 returns convex_hull + right_hull,
\* so nothing of the call of line 100 reaches the result.
FindHullStepWithoutLeftHull ==
    /\ pc = "hull"
    /\ stack # <<>>
    /\ line_distance_squared(stack[1].line_start, stack[1].line_end) # 0
    /\ LET subset == stack[1].subset_of_coordinates
           line_start == stack[1].line_start
           line_end == stack[1].line_end
           branch == stack[1].branch
       IN  \E f \in {farthest_point_from_line(subset, line_start, line_end)} :
           \E coordinates_above_right_side \in
                  {find_coordinates_above_and_below_line(subset, line_start, f)[1]} :
               /\ farthest_point' = f
               /\ stack' = Pending(<<Frame(coordinates_above_right_side,
                                           line_start, f, branch)>>)
                           \o Tail(stack)
               /\ IF branch = "above"
                  THEN /\ above_convex_hull' = Append(above_convex_hull, f)
                       /\ UNCHANGED below_convex_hull
                  ELSE /\ below_convex_hull' = Append(below_convex_hull, f)
                       /\ UNCHANGED above_convex_hull
    /\ UNCHANGED <<coordinates, pc, leftmost, rightmost, coords_above_line,
                   coords_below_line, convex_hull, error, run, first_hull>>

\* Lines 89-102: the recursive case of find_hull.  farthest_point is
\* emitted, then the two recursive calls become pending, the one of line 99
\* in front of the one of line 100.
FindHullStep ==
    /\ pc = "hull"
    /\ stack # <<>>
    /\ line_distance_squared(stack[1].line_start, stack[1].line_end) # 0
    /\ LET subset == stack[1].subset_of_coordinates
           line_start == stack[1].line_start
           line_end == stack[1].line_end
           branch == stack[1].branch
       IN  \E f \in {farthest_point_from_line(subset, line_start, line_end)} :
           \E coordinates_above_right_side \in
                  {find_coordinates_above_and_below_line(subset, line_start, f)[1]} :
           \E coordinates_above_left_side \in
                  {find_coordinates_above_and_below_line(subset, f, line_end)[1]} :
               /\ farthest_point' = f
               /\ stack' = Pending(<<Frame(coordinates_above_right_side,
                                           line_start, f, branch),
                                     Frame(coordinates_above_left_side,
                                           f, line_end, branch)>>)
                           \o Tail(stack)
               /\ IF branch = "above"
                  THEN /\ above_convex_hull' = Append(above_convex_hull, f)
                       /\ UNCHANGED below_convex_hull
                  ELSE /\ below_convex_hull' = Append(below_convex_hull, f)
                       /\ UNCHANGED above_convex_hull
    /\ UNCHANGED <<coordinates, pc, leftmost, rightmost, coords_above_line,
                   coords_below_line, convex_hull, error, run, first_hull>>

\* Lines 119 and 120 have returned; line 122.
Return ==
    /\ pc = "hull"
    /\ stack = <<>>
    /\ \E result \in {<<leftmost>> \o above_convex_hull \o below_convex_hull
                          \o <<rightmost>>} :
           /\ convex_hull' = result
           /\ first_hull' = IF run = 1 THEN result ELSE first_hull
    /\ pc' = "returned"
    /\ UNCHANGED <<coordinates, leftmost, rightmost, coords_above_line,
                   coords_below_line, stack, above_convex_hull,
                   below_convex_hull, farthest_point, error, run>>

\* The caller passes the returned hull, in its returned order, to a second
\* call of quick_hull.
CallOnHull ==
    /\ pc = "returned"
    /\ run = 1
    /\ run' = 2
    /\ coordinates' = convex_hull
    /\ pc' = "input"
    /\ leftmost' = NoPoint
    /\ rightmost' = NoPoint
    /\ coords_above_line' = <<>>
    /\ coords_below_line' = <<>>
    /\ stack' = <<>>
    /\ above_convex_hull' = <<>>
    /\ below_convex_hull' = <<>>
    /\ farthest_point' = NoPoint
    /\ convex_hull' = <<>>
    /\ UNCHANGED <<error, first_hull>>

Next ==
    \/ generate_coordinates
    \/ EmptyInput
    \/ Split
    \/ FindHullDivideByZero
    \/ FindHullStep
    \/ Return

Spec == Init /\ [][Next]_vars

\* The runs in which the caller may call quick_hull once more, on the hull
\* that the first call returned.
NextWithSecondCall ==
    \/ Next
    \/ CallOnHull

SecondCallSpec == Init /\ [][NextWithSecondCall]_vars

----------------------------------------------------------------------------
(* Plane geometry used to state the properties.  None of it is used by the *)
(* state machine.                                                          *)

Min2(a, b) == IF a <= b THEN a ELSE b

Max2(a, b) == IF a >= b THEN a ELSE b

\* p lies on the closed segment from a to b.
OnSegment(a, b, p) ==
    /\ (b[1] - a[1]) * (p[2] - a[2]) = (p[1] - a[1]) * (b[2] - a[2])
    /\ Min2(a[1], b[1]) <= p[1] /\ p[1] <= Max2(a[1], b[1])
    /\ Min2(a[2], b[2]) <= p[2] /\ p[2] <= Max2(a[2], b[2])

\* Twice the signed area of the triangle a, b, c.
Area2(a, b, c) ==
    (a[1] * (b[2] - c[2])) + (b[1] * (c[2] - a[2])) + (c[1] * (a[2] - b[2]))

\* p lies in the closed triangle a, b, c, which is counter-clockwise.
InTriangle(a, b, c, p) ==
    /\ Area2(a, b, c) > 0
    /\ Area2(a, b, p) >= 0
    /\ Area2(b, c, p) >= 0
    /\ Area2(c, a, p) >= 0

\* p lies in the convex hull of the finite set S (Caratheodory: in a
\* segment or a triangle spanned by points of S).
InConvexHull(p, S) ==
    \/ p \in S
    \/ \E a, b \in S : OnSegment(a, b, p)
    \/ \E a, b, c \in S : InTriangle(a, b, c, p)

\* p is an extreme point of S: not a convex combination of the others.
IsExtremePoint(p, S) == p \in S /\ ~InConvexHull(p, S \ {p})

\* p is on the boundary of the convex hull of S: some line through p and
\* another point of S has all of S on one closed side.
OnHullBoundary(p, S) ==
    \/ S \subseteq {p}
    \/ \E q \in S \ {p} :
          \/ \A s \in S : Area2(p, q, s) >= 0
          \/ \A s \in S : Area2(p, q, s) <= 0

StrictlyInside(p, S) == ~OnHullBoundary(p, S) /\ InConvexHull(p, S)

Collinear(S) == \A a, b, c \in S : Area2(a, b, c) = 0

AllSameX(coords) == \A i \in 1..Len(coords) : coords[i][1] = coords[1][1]

----------------------------------------------------------------------------
(* Properties.                                                             *)

\* C1: when quick_hull returns, no input point is strictly outside the
\* convex hull of the returned points.
C1_Containment ==
    pc = "returned" =>
        \A i \in 1..Len(coordinates) :
            InConvexHull(coordinates[i], Range(convex_hull))

\* A call returned a hull with area and left an input point out of it.
C1_Witness ==
    /\ pc = "returned"
    /\ run = 1
    /\ ~Collinear(Range(convex_hull))
    /\ Range(coordinates) \ Range(convex_hull) # {}

\* C2: every point returned by quick_hull is an extreme point of the input
\* set.
C2_OutputIsExtreme ==
    pc = "returned" =>
        \A i \in 1..Len(convex_hull) :
            IsExtremePoint(convex_hull[i], Range(coordinates))

\* C3: an input point strictly inside the convex hull of the input never
\* appears in the returned sequence.
C3_InteriorExcluded ==
    pc = "returned" =>
        \A i \in 1..Len(convex_hull) :
            ~StrictlyInside(convex_hull[i], Range(coordinates))

\* A call returned on an input that has a strictly interior point.
C3_Witness ==
    /\ pc = "returned"
    /\ run = 1
    /\ \E i \in 1..Len(coordinates) :
           StrictlyInside(coordinates[i], Range(coordinates))

\* C4: quick_hull called on the hull it returned returns the same set of
\* points.
C4_Idempotent ==
    (run = 2 /\ pc = "returned") => Range(convex_hull) = Range(first_hull)

\* C5: leftmost, rightmost, every point a find_hull branch adds to its
\* hull and every point of the returned sequence is a point of the input.
C5_NoFabricatedPoints ==
    LET IsInput(point) == \E i \in 1..Len(coordinates) : coordinates[i] = point
    IN  /\ farthest_point # NoPoint => IsInput(farthest_point)
        /\ leftmost # NoPoint => IsInput(leftmost) /\ IsInput(rightmost)
        /\ above_convex_hull # <<>>
               => IsInput(above_convex_hull[Len(above_convex_hull)])
        /\ below_convex_hull # <<>>
               => IsInput(below_convex_hull[Len(below_convex_hull)])
        /\ pc = "returned"
               => \A i \in 1..Len(convex_hull) : IsInput(convex_hull[i])

\* A call returned a hull to which both branches contributed a point found
\* off the outer baseline.
C5_Witness ==
    /\ pc = "returned"
    /\ run = 1
    /\ above_convex_hull # <<>>
    /\ below_convex_hull # <<>>
    /\ cross_product(leftmost, rightmost, below_convex_hull[1]) < 0
    /\ Len(convex_hull) >= 4

C7_FirstExtremes ==
    leftmost # NoPoint =>
        /\ \E i \in 1..Len(coordinates) :
               /\ coordinates[i] = leftmost
               /\ \A j \in 1..Len(coordinates) : coordinates[j][1] >= leftmost[1]
               /\ \A j \in 1..(i - 1) : coordinates[j][1] # leftmost[1]
        /\ \E i \in 1..Len(coordinates) :
               /\ coordinates[i] = rightmost
               /\ \A j \in 1..Len(coordinates) : coordinates[j][1] <= rightmost[1]
               /\ \A j \in 1..(i - 1) : coordinates[j][1] # rightmost[1]

\* The extremes were found on an input where two different points share
\* the minimum x and two different points share the maximum x.
C7_Witness ==
    /\ pc = "hull"
    /\ above_convex_hull = <<>>
    /\ below_convex_hull = <<>>
    /\ run = 1
    /\ leftmost[1] # rightmost[1]
    /\ \E i \in 1..Len(coordinates) :
           coordinates[i][1] = leftmost[1] /\ coordinates[i] # leftmost
    /\ \E i \in 1..Len(coordinates) :
           coordinates[i][1] = rightmost[1] /\ coordinates[i] # rightmost

\* C8: every point of the subset of every pending find_hull call, the two
\* top-level calls and the recursive ones, has strictly positive
\* orientation relative to the baseline of that call.
C8_SubsetStrictlyPositive ==
    \A k \in 1..Len(stack) :
        \A i \in 1..Len(stack[k].subset_of_coordinates) :
            cross_product(stack[k].line_start, stack[k].line_end,
                          stack[k].subset_of_coordinates[i]) > 0

\* A find_hull step has emitted a point.
IsFindHullStep ==
    Len(above_convex_hull') + Len(below_convex_hull')
        > Len(above_convex_hull) + Len(below_convex_hull)

\* The pending calls that the step has put in front of the others.
RecursiveCalls == SubSeq(stack', 1, Len(stack') - Len(stack) + 1)

RECURSIVE Power3(_)
Power3(n) == IF n = 0 THEN 1 ELSE 3 * Power3(n - 1)

\* Work left for the pending find_hull calls: a call on n points weighs
\* 3^n, more than two calls on fewer points.
RECURSIVE PendingWork(_)
PendingWork(calls) ==
    IF calls = <<>> THEN 0
    ELSE Power3(Len(calls[1].subset_of_coordinates)) + PendingWork(Tail(calls))

\* C9: every call of quick_hull comes to an end: every step inside a
\* find_hull branch reduces the work left, a natural number; and in every
\* find_hull step the farthest point is one of the subset and is in
\* neither recursive subset, each of which is strictly shorter than the
\* subset of the step.
C9_Terminates ==
    /\ [][pc = "hull" /\ pc' = "hull"
            => PendingWork(stack') < PendingWork(stack)]_vars
    /\ [][IsFindHullStep =>
            /\ farthest_point' \in Range(stack[1].subset_of_coordinates)
            /\ \A k \in 1..Len(RecursiveCalls) :
                   /\ farthest_point' \notin Range(RecursiveCalls[k].subset_of_coordinates)
                   /\ Len(RecursiveCalls[k].subset_of_coordinates)
                          < Len(stack[1].subset_of_coordinates)
         ]_vars

\* The first find_hull step of the above branch selected a farthest point
\* that occurs twice in its subset.
C9_Witness ==
    /\ pc = "hull"
    /\ Len(above_convex_hull) = 1
    /\ below_convex_hull = <<>>
    /\ Cardinality({i \in 1..Len(coords_above_line) :
                       coords_above_line[i] = farthest_point}) >= 2

NoneStrictlyBelow ==
    \A i \in 1..Len(coordinates) :
        cross_product(leftmost, rightmost, coordinates[i]) >= 0

\* The first point in input order on the line leftmost -> rightmost.
FirstOnBaseline ==
    coordinates[CHOOSE i \in 1..Len(coordinates) :
                    /\ cross_product(leftmost, rightmost, coordinates[i]) = 0
                    /\ \A j \in 1..(i - 1) :
                           cross_product(leftmost, rightmost, coordinates[j]) # 0]

====
